---- MODULE Spec2Model ----
(***************************************************************************)
(* Model of the OAuth relier (app/scripts/models/reliers/oauth.js) and of  *)
(* the shared signIn view mixin (app/scripts/views/mixins/signin-mixin.js).*)
(*                                                                         *)
(* Strings that the code splits, trims or joins are sequences of one       *)
(* character strings.  A scope token is a non-empty sequence of non-space  *)
(* characters; the tokens the constants name are abbreviated to one        *)
(* character: "p" is `profile`, "e" is `profile:email`, "u" is             *)
(* `profile:uid`.  Every other token ("pp", "eu", ...) is a scope that no   *)
(* constant names.                                                         *)
(*                                                                         *)
(* Backbone attribute bags and query strings are functions from the keys   *)
(* that hold a value to that value; an absent key is an unset attribute.   *)
(***************************************************************************)
EXTENDS Integers, Sequences, FiniteSets, TLC

VARIABLES
  \* ---- scopeStrToArray applied to an arbitrary string
  scopes,        \* the raw scope string handed to scopeStrToArray
  scopeArr,      \* the array it returned
  scopePc,       \* "input" | "returned"
  \* ---- OAuthRelier.fetch
  searchParams,  \* window.location.search, parsed
  session,       \* this._session: holds `oauth` when a resume object is stored
  attrs,         \* the relier's Backbone attributes
  attrs0,        \* the attributes when fetch() was called
  fetchPc,       \* "init" | "getClientInfo" | "normalize" | "resolved" | "rejected"
  clientReply,   \* how getClientInfo settled
  fetchErr,      \* rejection value of fetch()
  \* ---- signIn of the view mixin
  account,       \* the account handed to signIn
  password,      \* TRUE when a password was handed to signIn
  capabilities,  \* the capabilities of this.broker
  view,          \* the view: experiment group, afterSignInBrokerMethod, model.redirectTo
  signInPc,      \* the pending collaborator call of the chain, or "start" | "done"
  signInResult,  \* the promise signIn returned
  successOrigin, \* who called onSignInSuccess: "signIn" | "onSubmitComplete"
  successResult, \* the promise onSignInSuccess returned
  consentPending,\* signin_permissions holds an onSubmitComplete callback
  authArgs,      \* the arguments of the signInAccount call
  brokerBehavior,\* behaviors set with broker.setBehavior
  replies,       \* how each collaborator call of the chain settled
  calls          \* collaborator calls made so far, in order

scopeVars == <<scopes, scopeArr, scopePc>>
fetchVars == <<searchParams, session, attrs, attrs0, fetchPc, clientReply, fetchErr>>
signInVars == <<account, password, capabilities, view, signInPc, signInResult,
                successOrigin, successResult, consentPending, authArgs, brokerBehavior, replies, calls>>

----------------------------------------------------------------------------
(* Bounds *)

MaxStrLen == 5     \* longest string handed to scopeStrToArray on its own
MaxScopeLen == 4   \* longest `scope` value of a request or resume object

Chars == {"p", "e", "u", " "}

RECURSIVE StringsUpTo(_)
StringsUpTo(n) ==
  IF n = 0 THEN {<<>>}
  ELSE LET shorter == StringsUpTo(n - 1)
       IN shorter \cup {Append(s, c) : s \in {t \in shorter : Len(t) = n - 1}, c \in Chars}

----------------------------------------------------------------------------
(* JavaScript and underscore primitives used by oauth.js *)

IsSpace(c) == c = " "

Range(s) == {s[i] : i \in 1..Len(s)}

\* String.prototype.trim
RECURSIVE trim(_)
trim(s) ==
  IF s = <<>> THEN s
  ELSE IF IsSpace(Head(s)) THEN trim(Tail(s))
  ELSE IF IsSpace(s[Len(s)]) THEN trim(SubSeq(s, 1, Len(s) - 1))
  ELSE s

\* String.prototype.split(/\s+/g): the pieces between maximal runs of
\* whitespace; a leading or trailing run leaves an empty piece.
RECURSIVE SplitRec(_, _, _, _)
SplitRec(s, i, cur, acc) ==
  IF i > Len(s) THEN Append(acc, cur)
  ELSE IF IsSpace(s[i])
       THEN IF i > 1 /\ IsSpace(s[i - 1])
            THEN SplitRec(s, i + 1, cur, acc)
            ELSE SplitRec(s, i + 1, <<>>, Append(acc, cur))
       ELSE SplitRec(s, i + 1, Append(cur, s[i]), acc)

split(s) == SplitRec(s, 1, <<>>, <<>>)

\* _.uniq: keeps the first occurrence of every element
RECURSIVE UniqRec(_, _)
UniqRec(arr, acc) ==
  IF arr = <<>> THEN acc
  ELSE UniqRec(Tail(arr), IF Head(arr) \in Range(acc) THEN acc ELSE Append(acc, Head(arr)))

uniq(arr) == UniqRec(arr, <<>>)

\* _.without(array, item)
without(arr, item) == SelectSeq(arr, LAMBDA x : x # item)

\* _.union(a, b) == _.uniq(_.flatten([a, b]))
union(a, b) == uniq(a \o b)

\* _.intersection(a, b): the distinct elements of a, in a's order, that b holds
RECURSIVE IntersectionRec(_, _, _)
IntersectionRec(a, b, acc) ==
  IF a = <<>> THEN acc
  ELSE IntersectionRec(Tail(a), b,
         IF Head(a) \notin Range(acc) /\ Head(a) \in Range(b)
         THEN Append(acc, Head(a)) ELSE acc)

intersection(a, b) == IntersectionRec(a, b, <<>>)

\* Array.prototype.join(' ')
RECURSIVE join(_)
join(arr) ==
  IF arr = <<>> THEN <<>>
  ELSE IF Len(arr) = 1 THEN arr[1]
  ELSE arr[1] \o <<" ">> \o join(Tail(arr))

----------------------------------------------------------------------------
(* lib/constants *)

OAUTH_TRUSTED_PROFILE_SCOPE == <<"p">>
OAUTH_TRUSTED_PROFILE_SCOPE_EXPANSION == << <<"e">>, <<"u">> >>
OAUTH_UNTRUSTED_ALLOWED_PERMISSIONS == << <<"e">>, <<"u">> >>
OAUTH_PROMPT_CONSENT == "consent"

----------------------------------------------------------------------------
(* Module-level helpers of oauth.js *)

\* replaceItemInArray putting the replacement first
replaceItemInArrayPrepends(array, itemToReplace, replaceWith) ==
  LET wo == without(array, itemToReplace)
  IN IF Len(wo) # Len(array) THEN union(replaceWith, wo) ELSE array

\* replaceItemInArray appending the replacement instead of taking the union
replaceItemInArrayConcat(array, itemToReplace, replaceWith) ==
  LET wo == without(array, itemToReplace)
  IN IF Len(wo) # Len(array) THEN wo \o replaceWith ELSE array

replaceItemInArray(array, itemToReplace, replaceWith) ==
  LET wo == without(array, itemToReplace)
  IN IF Len(wo) # Len(array) THEN union(wo, replaceWith) ELSE array

\* scopeStrToArray without _.uniq
scopeStrToArrayNoUniq(str) ==
  IF Len(trim(str)) > 0 THEN split(str) ELSE <<>>

\* `! _.isString` tests the function object, which is always truthy: the
\* early return is dead code.  The length test is on the trimmed string,
\* the split on the untrimmed one.
scopeStrToArray(str) ==
  IF Len(trim(str)) > 0 THEN uniq(split(str)) ELSE <<>>

\* sanitizeUntrustedPermissions with the arguments of _.intersection swapped
sanitizeInAllowListOrder(permissions) ==
  intersection(OAUTH_UNTRUSTED_ALLOWED_PERMISSIONS, permissions)

sanitizeUntrustedPermissions(permissions) ==
  intersection(permissions, OAUTH_UNTRUSTED_ALLOWED_PERMISSIONS)

----------------------------------------------------------------------------
(* Attribute bags *)

NoAttrs == [k \in {} |-> TRUE]

Has(bag, key) == key \in DOMAIN bag

\* Backbone Model.set(object): the keys of `values` overwrite, the rest stay
Set(bag, values) ==
  [k \in DOMAIN bag \cup DOMAIN values |->
     IF k \in DOMAIN values THEN values[k] ELSE bag[k]]

Set1(bag, key, value) == Set(bag, [k \in {key} |-> value])

----------------------------------------------------------------------------
(* lib/oauth-errors, lib/vat, lib/transform *)

NoField == "-"

toError(kind) ==
  [kind |-> kind, field |-> NoField, validation |-> FALSE, keys |-> <<>>, client_id |-> NoField]

toInvalidParameterError(field) ==
  [kind |-> "INVALID_PARAMETER", field |-> field, validation |-> FALSE, keys |-> <<>>,
   client_id |-> NoField]

toMissingParameterError(field) ==
  [kind |-> "MISSING_PARAMETER", field |-> field, validation |-> FALSE, keys |-> <<>>,
   client_id |-> NoField]

is(err, kind) == err.kind = kind

NoError == toError("none")

ValidClientIds == {"cid1"}
ValidUrls == {"uri1", "uri2"}
ValidAccessTypes == {"offline", "online"}

\* the Vat validator of each type
Validates(type, v) ==
  CASE type = "clientId" -> v \in ValidClientIds
    [] type = "hex" -> v \in ValidClientIds
    [] type = "url" -> v \in ValidUrls
    [] type = "urlOrEmpty" -> v \in ValidUrls \cup {""}
    [] type = "prompt" -> v = OAUTH_PROMPT_CONSENT
    [] type = "accessType" -> v \in ValidAccessTypes
    [] type = "boolean" -> v \in BOOLEAN
    [] type = "stringMin1" -> Len(v) >= 1
    [] type = "nameMin1" -> v # ""
    [] OTHER -> TRUE

Rule(key, type, required, renameTo) ==
  [key |-> key, type |-> type, required |-> required, renameTo |-> renameTo]

CLIENT_INFO_SCHEMA == <<
  Rule("id", "hex", TRUE, "clientId"),
  Rule("image_uri", "urlOrEmpty", FALSE, "imageUri"),
  Rule("name", "nameMin1", TRUE, "serviceName"),
  Rule("redirect_uri", "url", TRUE, "redirectUri"),
  Rule("trusted", "boolean", TRUE, "trusted") >>

SIGNIN_SIGNUP_QUERY_PARAM_SCHEMA == <<
  Rule("access_type", "accessType", FALSE, "accessType"),
  Rule("client_id", "clientId", TRUE, "clientId"),
  Rule("code_challenge", "any", FALSE, "codeChallenge"),
  Rule("code_challenge_method", "any", FALSE, "codeChallengeMethod"),
  Rule("keys_jwk", "any", FALSE, "keysJwk"),
  Rule("prompt", "prompt", FALSE, "prompt"),
  Rule("redirectTo", "url", FALSE, "redirectTo"),
  Rule("redirect_uri", "url", FALSE, "redirectUri"),
  Rule("scope", "stringMin1", TRUE, "scope"),
  Rule("state", "any", FALSE, "state") >>

VERIFICATION_INFO_SCHEMA == <<
  Rule("access_type", "accessType", FALSE, "accessType"),
  Rule("action", "any", FALSE, "action"),
  Rule("client_id", "clientId", TRUE, "clientId"),
  Rule("prompt", "prompt", FALSE, "prompt"),
  Rule("redirect_uri", "url", FALSE, "redirectUri"),
  Rule("scope", "stringMin1", FALSE, "scope"),
  Rule("service", "clientId", FALSE, "service"),
  Rule("state", "any", FALSE, "state") >>

RuleFails(obj, rule) ==
  IF Has(obj, rule.key) THEN ~Validates(rule.type, obj[rule.key]) ELSE rule.required

\* Transform.transformUsingSchema: the renamed, validated fields of the
\* schema, or the error of the first rule of the schema that fails.  Keys
\* the schema does not name are dropped.
transformUsingSchema(obj, schema) ==
  LET bad == {i \in 1..Len(schema) : RuleFails(obj, schema[i])}
      present == {i \in 1..Len(schema) : Has(obj, schema[i].key)}
  IN IF bad # {}
     THEN LET i == CHOOSE j \in bad : \A k \in bad : j <= k
              rule == schema[i]
          IN [ok |-> FALSE, value |-> NoAttrs,
              err |-> IF Has(obj, rule.key) THEN toInvalidParameterError(rule.key)
                      ELSE toMissingParameterError(rule.key)]
     ELSE [ok |-> TRUE, err |-> NoError,
           value |-> [name \in {schema[i].renameTo : i \in present} |->
                        LET i == CHOOSE j \in present : schema[j].renameTo = name
                        IN obj[schema[i].key]]]

----------------------------------------------------------------------------
(* OAuthRelier *)

getSearchParam(params, key) == Has(params, key)

_isVerificationFlow(params) == getSearchParam(params, "code")

isTrusted(bag) == Has(bag, "trusted") /\ bag["trusted"]

wantsConsent(bag) == Has(bag, "prompt") /\ bag["prompt"] = OAUTH_PROMPT_CONSENT

Step(ok, bag, err) == [ok |-> ok, attrs |-> bag, err |-> err]

\* Relier.prototype.importSearchParamsUsingSchema
importSearchParamsUsingSchema(bag, params, schema) ==
  LET result == transformUsingSchema(params, schema)
  IN IF result.ok THEN Step(TRUE, Set(bag, result.value), NoError)
     ELSE Step(FALSE, bag, result.err)

_setupVerificationFlow(bag, params, sess) ==
  LET resumeObj ==
        IF Has(sess, "oauth") THEN sess["oauth"]
        ELSE IF getSearchParam(params, "service")
             THEN [k \in {"client_id", "service"} |-> params["service"]]
             ELSE NoAttrs
      result == transformUsingSchema(resumeObj, VERIFICATION_INFO_SCHEMA)
  IN IF result.ok THEN Step(TRUE, Set(bag, result.value), NoError)
     ELSE Step(FALSE, bag, result.err)

\* _setupSignInSignUpFlow without the test for `service`
setupSignInSignUpFlowAllowsService(bag, params) ==
  importSearchParamsUsingSchema(bag, params, SIGNIN_SIGNUP_QUERY_PARAM_SCHEMA)

_setupSignInSignUpFlow(bag, params) ==
  LET imported == importSearchParamsUsingSchema(bag, params, SIGNIN_SIGNUP_QUERY_PARAM_SCHEMA)
  IN IF ~imported.ok THEN imported
     ELSE IF getSearchParam(params, "service")
          THEN Step(FALSE, imported.attrs, toInvalidParameterError("service"))
          ELSE imported

\* the first continuation of fetch(), up to the call of getClientInfo
fetchSetup(bag, params, sess) ==
  LET flow == IF _isVerificationFlow(params)
              THEN _setupVerificationFlow(bag, params, sess)
              ELSE _setupSignInSignUpFlow(bag, params)
  IN IF ~flow.ok THEN flow
     ELSE IF ~Has(flow.attrs, "service") /\ Has(flow.attrs, "clientId")
          THEN Step(TRUE, Set1(flow.attrs, "service", flow.attrs["clientId"]), NoError)
          ELSE flow

\* the serviceInfo continuation comparing redirect URIs in every flow
onClientInfoAlwaysCompares(bag, verificationFlow, serviceInfo) ==
  LET result == transformUsingSchema(serviceInfo, CLIENT_INFO_SCHEMA)
  IN IF ~result.ok THEN Step(FALSE, bag, result.err)
     ELSE IF ~Has(bag, "redirectUri") \/ result.value["redirectUri"] # bag["redirectUri"]
          THEN Step(FALSE, bag, toError("INCORRECT_REDIRECT"))
          ELSE Step(TRUE, Set(bag, result.value), NoError)

\* _setupOAuthRPInfo, the continuation that receives serviceInfo.
\* queryRedirectUri was read from the relier before the call.
onClientInfo(bag, verificationFlow, serviceInfo) ==
  LET result == transformUsingSchema(serviceInfo, CLIENT_INFO_SCHEMA)
  IN IF ~result.ok THEN Step(FALSE, bag, result.err)
     ELSE IF ~verificationFlow /\
             (~Has(bag, "redirectUri") \/ result.value["redirectUri"] # bag["redirectUri"])
          THEN Step(FALSE, bag, toError("INCORRECT_REDIRECT"))
          ELSE Step(TRUE, Set(bag, result.value), NoError)

\* the failure continuation looking for `client_id` among all validation keys
onClientInfoErrorAnyKey(clientId, err) ==
  IF is(err, "INVALID_PARAMETER") /\ err.validation /\ "client_id" \in Range(err.keys)
  THEN [toError("UNKNOWN_CLIENT") EXCEPT !.client_id = clientId]
  ELSE err

\* _setupOAuthRPInfo, the continuation that receives the failure of getClientInfo
onClientInfoError(clientId, err) ==
  IF is(err, "INVALID_PARAMETER") /\ err.validation /\ err.keys # <<>> /\ err.keys[1] = "client_id"
  THEN [toError("UNKNOWN_CLIENT") EXCEPT !.client_id = clientId]
  ELSE err

\* _normalizeScopesAndPermissions leaving `scope` as it was requested
normalizeKeepsRequestedScope(bag) ==
  LET split0 == scopeStrToArray(bag["scope"])
      permissions ==
        IF isTrusted(bag)
        THEN IF wantsConsent(bag)
             THEN replaceItemInArray(split0, OAUTH_TRUSTED_PROFILE_SCOPE,
                                     OAUTH_TRUSTED_PROFILE_SCOPE_EXPANSION)
             ELSE split0
        ELSE sanitizeUntrustedPermissions(split0)
  IN IF Len(permissions) = 0
     THEN Step(FALSE, bag, toInvalidParameterError("scope"))
     ELSE Step(TRUE, Set1(bag, "permissions", permissions), NoError)

_normalizeScopesAndPermissions(bag) ==
  LET split0 == scopeStrToArray(bag["scope"])
      permissions ==
        IF isTrusted(bag)
        THEN IF wantsConsent(bag)
             THEN replaceItemInArray(split0, OAUTH_TRUSTED_PROFILE_SCOPE,
                                     OAUTH_TRUSTED_PROFILE_SCOPE_EXPANSION)
             ELSE split0
        ELSE sanitizeUntrustedPermissions(split0)
  IN IF Len(permissions) = 0
     THEN Step(FALSE, bag, toInvalidParameterError("scope"))
     ELSE Step(TRUE,
               Set1(Set1(bag, "scope", join(permissions)), "permissions", permissions),
               NoError)

----------------------------------------------------------------------------
(* Inputs of fetch() *)

Opt(key, values) == {NoAttrs} \cup {[k \in {key} |-> v] : v \in values}

ScopeValues == StringsUpTo(MaxScopeLen) \ {<<>>}

SignInQueries ==
  {Set(Set(Set(Set(c, r), s), p), v) :
     c \in Opt("client_id", {"cid1", "bad"}),
     r \in Opt("redirect_uri", {"uri1", "uri2"}),
     s \in Opt("scope", ScopeValues),
     p \in Opt("prompt", {OAUTH_PROMPT_CONSENT}),
     v \in Opt("service", {"cid1"})}
  \cup
  {Set([client_id |-> "cid1", redirect_uri |-> "uri1", scope |-> <<"e">>], Set(a, v)) :
     a \in Opt("access_type", {"offline", "bad"}),
     v \in Opt("service", {"cid1"})}

VerificationQueries ==
  {Set([code |-> "c0de"], v) : v \in Opt("service", {"cid1", "bad"})}

ResumeObjects ==
  {Set(Set(Set(c, r), s), p) :
     c \in Opt("client_id", {"cid1", "bad"}),
     r \in Opt("redirect_uri", {"uri1"}),
     s \in Opt("scope", ScopeValues),
     p \in Opt("prompt", {OAUTH_PROMPT_CONSENT})}

Sessions == {NoAttrs} \cup {[oauth |-> o] : o \in ResumeObjects}

ServiceInfos ==
  {[id |-> "cid1", name |-> "svc", redirect_uri |-> u, trusted |-> t] :
     u \in ValidUrls, t \in BOOLEAN}
  \cup {[id |-> "cid1", name |-> "svc", redirect_uri |-> "uri2"]}

ClientInfoErrors ==
  {[toError("INVALID_PARAMETER") EXCEPT !.validation = TRUE, !.keys = <<"client_id">>],
   [toError("INVALID_PARAMETER") EXCEPT !.validation = TRUE, !.keys = <<"scope", "client_id">>],
   [toError("INVALID_PARAMETER") EXCEPT !.validation = TRUE],
   toError("INVALID_PARAMETER"),
   [toError("SERVICE_UNAVAILABLE") EXCEPT !.validation = TRUE, !.keys = <<"client_id">>]}

Pending == [tag |-> "pending", info |-> NoAttrs, err |-> NoError]

----------------------------------------------------------------------------
(* fetch() as a promise chain *)

FetchInit ==
  /\ \/ searchParams \in SignInQueries /\ session = NoAttrs
     \/ searchParams \in VerificationQueries /\ session \in Sessions
  /\ attrs = NoAttrs
  /\ attrs0 = attrs
  /\ fetchPc = "init"
  /\ clientReply = Pending
  /\ fetchErr = NoError

FetchIdle ==
  /\ searchParams = NoAttrs
  /\ session = NoAttrs
  /\ attrs = NoAttrs
  /\ attrs0 = NoAttrs
  /\ fetchPc = "idle"
  /\ clientReply = Pending
  /\ fetchErr = NoError

\* fetch(): Relier.prototype.fetch resolves, then the first continuation
\* runs up to the call of getClientInfo
Fetch ==
  /\ fetchPc = "init"
  /\ LET setup == fetchSetup(attrs, searchParams, session)
     IN /\ attrs' = setup.attrs
        /\ fetchErr' = setup.err
        /\ fetchPc' = IF setup.ok THEN "getClientInfo" ELSE "rejected"
  /\ UNCHANGED <<searchParams, session, attrs0, clientReply>>

GetClientInfoResolves ==
  /\ fetchPc = "getClientInfo"
  /\ \E serviceInfo \in ServiceInfos :
       LET handled == onClientInfo(attrs, _isVerificationFlow(searchParams), serviceInfo)
       IN /\ clientReply' = [tag |-> "info", info |-> serviceInfo, err |-> NoError]
          /\ attrs' = handled.attrs
          /\ fetchErr' = handled.err
          /\ fetchPc' = IF handled.ok THEN "normalize" ELSE "rejected"
  /\ UNCHANGED <<searchParams, session, attrs0>>

GetClientInfoRejects ==
  /\ fetchPc = "getClientInfo"
  /\ \E err \in ClientInfoErrors :
       /\ clientReply' = [tag |-> "error", info |-> NoAttrs, err |-> err]
       /\ fetchErr' = onClientInfoError(attrs["clientId"], err)
       /\ fetchPc' = "rejected"
  /\ UNCHANGED <<searchParams, session, attrs, attrs0>>

\* the second continuation of fetch()
Normalize ==
  /\ fetchPc = "normalize"
  /\ IF Has(attrs, "scope")
     THEN LET done == _normalizeScopesAndPermissions(attrs)
          IN /\ attrs' = done.attrs
             /\ fetchErr' = done.err
             /\ fetchPc' = IF done.ok THEN "resolved" ELSE "rejected"
     ELSE /\ fetchPc' = "resolved"
          /\ UNCHANGED <<attrs, fetchErr>>
  /\ UNCHANGED <<searchParams, session, attrs0, clientReply>>

----------------------------------------------------------------------------
(* scopeStrToArray on its own *)

ScopeInit ==
  /\ scopes \in StringsUpTo(MaxStrLen)
  /\ scopeArr = <<>>
  /\ scopePc = "input"

ScopeIdle ==
  /\ scopes = <<>>
  /\ scopeArr = <<>>
  /\ scopePc = "idle"

ScopeStrToArray ==
  /\ scopePc = "input"
  /\ scopeArr' = scopeStrToArray(scopes)
  /\ scopePc' = "returned"
  /\ UNCHANGED scopes

----------------------------------------------------------------------------
(* lib/auth-errors, lib/verification-methods, lib/verification-reasons *)

SIGN_IN == "login"
SIGN_UP == "signup"
EMAIL == "email"
EMAIL_2FA == "email-2fa"
EMAIL_CAPTCHA == "email-captcha"
TOTP_2FA == "totp-2fa"
None == "none"

AuthError(kind, reason, method) ==
  [kind |-> kind, verificationReason |-> reason, verificationMethod |-> method]

AuthErrors_toError(kind) == AuthError(kind, None, None)

AuthErrors_is(err, kind) == err.kind = kind

----------------------------------------------------------------------------
(* Promises and collaborator calls *)

Unsettled == [state |-> "pending", value |-> None, err |-> AuthErrors_toError(None)]
NotCalled == [state |-> "none", value |-> None, err |-> AuthErrors_toError(None)]
Resolved(v) == [state |-> "resolved", value |-> v, err |-> AuthErrors_toError(None)]
Rejected(e) == [state |-> "rejected", value |-> None, err |-> e]

Call(op, arg, data) == [op |-> op, arg |-> arg, data |-> data]

\* this.navigate(screen, data) returns undefined
navigate(screen, data) == Call("navigate", screen, data)

Outcome(pc, result, made) == [pc |-> pc, result |-> result, calls |-> made]

----------------------------------------------------------------------------
(* signin-mixin.js *)

\* the guard of signIn without the test for a default account
signInRefusedIgnoresDefault(acct, pwd) ==
  \/ acct.isNull
  \/ (~acct.sessionToken /\ ~pwd)

\* the guard of signIn
signInRefused(acct, pwd) ==
  \/ acct.isNull
  \/ acct.isDefault
  \/ (~acct.sessionToken /\ ~pwd)

\* the verificationMethod override of the token code experiment
experimentVerificationMethod(group) ==
  CASE group = "treatment-code" -> EMAIL_2FA
    [] group = "treatment-link" -> EMAIL
    [] OTHER -> None

\* the token is discarded when the broker expects a fresh one
discardsSessionToken(acct, caps) ==
  acct.sessionToken /\ "reuseExistingSession" \notin caps

\* onSignInBlocked testing the verificationReason only
onSignInBlockedAnyMethod(acct, err) ==
  IF err.verificationReason = SIGN_IN
  THEN Outcome("sendUnblockEmail", Unsettled, <<Call("sendUnblockEmail", None, None)>>)
  ELSE Outcome("done", Rejected(err), <<>>)

\* onSignInBlocked testing the verificationMethod only
onSignInBlockedAnyReason(acct, err) ==
  IF err.verificationMethod = EMAIL_CAPTCHA
  THEN Outcome("sendUnblockEmail", Unsettled, <<Call("sendUnblockEmail", None, None)>>)
  ELSE Outcome("done", Rejected(err), <<>>)

\* onSignInBlocked navigating without waiting for sendUnblockEmail
onSignInBlockedNavigatesAtOnce(acct, err) ==
  IF err.verificationReason = SIGN_IN /\ err.verificationMethod = EMAIL_CAPTCHA
  THEN Outcome("sendUnblockEmail", Unsettled,
               <<Call("sendUnblockEmail", None, None), navigate("signin_unblock", "account")>>)
  ELSE Outcome("done", Rejected(err), <<>>)

onSignInBlocked(acct, err) ==
  IF err.verificationReason = SIGN_IN /\ err.verificationMethod = EMAIL_CAPTCHA
  THEN Outcome("sendUnblockEmail", Unsettled, <<Call("sendUnblockEmail", None, None)>>)
  ELSE Outcome("done", Rejected(err), <<>>)

\* the .catch of signIn resolving on a bounce without navigating
catchSwallowsBounce(acct, err) ==
  IF AuthErrors_is(err, "THROTTLED") \/ AuthErrors_is(err, "REQUEST_BLOCKED")
  THEN onSignInBlocked(acct, err)
  ELSE IF AuthErrors_is(err, "EMAIL_HARD_BOUNCE") \/ AuthErrors_is(err, "EMAIL_SENT_COMPLAINT")
       THEN Outcome("done", Resolved("undefined"), <<>>)
       ELSE Outcome("done", Rejected(err), <<>>)

\* the .catch of signIn without the test for EMAIL_SENT_COMPLAINT
catchWithoutComplaint(acct, err) ==
  IF AuthErrors_is(err, "THROTTLED") \/ AuthErrors_is(err, "REQUEST_BLOCKED")
  THEN onSignInBlocked(acct, err)
  ELSE IF AuthErrors_is(err, "EMAIL_HARD_BOUNCE")
       THEN Outcome("done", Resolved("undefined"), <<navigate("signin_bounced", acct.email)>>)
       ELSE Outcome("done", Rejected(err), <<>>)

\* the .catch of signIn
catch(acct, err) ==
  IF AuthErrors_is(err, "THROTTLED") \/ AuthErrors_is(err, "REQUEST_BLOCKED")
  THEN onSignInBlocked(acct, err)
  ELSE IF AuthErrors_is(err, "EMAIL_HARD_BOUNCE") \/ AuthErrors_is(err, "EMAIL_SENT_COMPLAINT")
       THEN Outcome("done", Resolved("undefined"), <<navigate("signin_bounced", acct.email)>>)
       ELSE Outcome("done", Rejected(err), <<>>)

\* accountNeedsPermissions without the shortcut for trusted reliers
accountNeedsPermissionsWhateverTrust(bag, acct) == ~acct.hasSeenPermissions

\* OAuthRelier.accountNeedsPermissions; whether the account has seen the
\* applicable permissions is the account's answer
accountNeedsPermissions(bag, acct) ==
  IF isTrusted(bag) /\ ~wantsConsent(bag) THEN FALSE ELSE ~acct.hasSeenPermissions

\* the screen of an unverified account without the TOTP branch
unverifiedScreenWithoutTotp(reason, method) ==
  IF reason = SIGN_IN /\ method = EMAIL THEN "confirm_signin"
  ELSE IF reason = SIGN_IN /\ method = EMAIL_2FA THEN "signin_token_code"
  ELSE "confirm"

\* onSignInSuccess for an account that is not verified: the screen
unverifiedScreen(reason, method) ==
  IF reason = SIGN_IN /\ method = EMAIL THEN "confirm_signin"
  ELSE IF reason = SIGN_IN /\ method = EMAIL_2FA THEN "signin_token_code"
  ELSE IF reason = SIGN_IN /\ method = TOTP_2FA THEN "signin_totp_code"
  ELSE "confirm"

\* the uid update without the test of the broker capability
updatesRelierUidWhateverBroker(bag, acct, caps) ==
  ~Has(bag, "uid") \/ acct.uid # bag["uid"]

\* onSignInSuccess: whether relier.set('uid', ...) runs
updatesRelierUid(bag, acct, caps) ==
  (~Has(bag, "uid") \/ acct.uid # bag["uid"]) /\ "allowUidChange" \in caps

brokerMethodOf(v) ==
  IF v.afterSignInBrokerMethod # None THEN v.afterSignInBrokerMethod ELSE "afterSignIn"

\* onSignInSuccess up to its return or its broker call: the calls it
\* makes, the relier and the view model it leaves, the behavior it sets
onSignInSuccess(bag, acct, caps, v) ==
  IF ~acct.verified
  THEN [pc |-> "done", result |-> Resolved("undefined"),
        calls |-> <<navigate(unverifiedScreen(acct.verificationReason, acct.verificationMethod),
                             "account")>>,
        attrs |-> bag, view |-> v, behavior |-> None]
  ELSE [pc |-> "afterSignIn", result |-> Unsettled,
        calls |-> <<Call("logEvent", "signin.success", None),
                    Call("logEvent", "signin.success.skip-confirm", None),
                    Call("logViewEvent", "signin.success", None),
                    Call("invokeBrokerMethod", brokerMethodOf(v), "account")>>,
        attrs |-> IF updatesRelierUid(bag, acct, caps) THEN Set1(bag, "uid", acct.uid) ELSE bag,
        view |-> [v EXCEPT !.redirectTo = None],
        behavior |-> IF v.redirectTo # None THEN brokerMethodOf(v) ELSE None]

----------------------------------------------------------------------------
(* Inputs of signIn *)

Accounts ==
  {[isNull |-> n, isDefault |-> d, sessionToken |-> t, verified |-> FALSE,
    verificationMethod |-> None, verificationReason |-> None,
    uid |-> "uid1", email |-> "a@b.c", hasSeenPermissions |-> FALSE] :
     n \in {FALSE}, d \in BOOLEAN, t \in BOOLEAN}
  \cup
  {[isNull |-> TRUE, isDefault |-> FALSE, sessionToken |-> FALSE, verified |-> FALSE,
    verificationMethod |-> None, verificationReason |-> None,
    uid |-> None, email |-> None, hasSeenPermissions |-> FALSE]}

Capabilities == SUBSET {"reuseExistingSession", "allowUidChange"}

Views ==
  [group : {"control", "treatment-code", "treatment-link"},
   afterSignInBrokerMethod : {None, "afterForceAuth"},
   redirectTo : {None, "settings"}]

\* a resolved relier, as the view sees it
SignInReliers ==
  {Set(Set([clientId |-> "cid1", trusted |-> t, permissions |-> << <<"e">> >>], p), u) :
     t \in BOOLEAN,
     p \in Opt("prompt", {OAUTH_PROMPT_CONSENT}),
     u \in Opt("uid", {"uid1"})}

\* what the auth server can leave in the account it signed in
Verifications ==
  {<<TRUE, None, None>>,
   <<FALSE, SIGN_IN, EMAIL>>, <<FALSE, SIGN_IN, EMAIL_2FA>>, <<FALSE, SIGN_IN, TOTP_2FA>>,
   <<FALSE, SIGN_UP, EMAIL>>, <<FALSE, SIGN_UP, EMAIL_2FA>>, <<FALSE, SIGN_IN, EMAIL_CAPTCHA>>,
   <<FALSE, None, None>>}

BlockedErrors ==
  {AuthError(k, r, m) :
     k \in {"THROTTLED", "REQUEST_BLOCKED"},
     r \in {SIGN_IN, None},
     m \in {EMAIL_CAPTCHA, None}}

SignInAccountErrors ==
  BlockedErrors \cup
  {AuthErrors_toError("EMAIL_HARD_BOUNCE"), AuthErrors_toError("EMAIL_SENT_COMPLAINT"),
   AuthErrors_toError("INCORRECT_PASSWORD")}

BrokerErrors ==
  {AuthError("THROTTLED", SIGN_IN, EMAIL_CAPTCHA), AuthErrors_toError("EMAIL_HARD_BOUNCE"),
   AuthErrors_toError("BROKER_ERROR")}

SendUnblockEmailErrors ==
  {AuthErrors_toError("THROTTLED"), AuthError("THROTTLED", SIGN_IN, EMAIL_CAPTCHA),
   AuthErrors_toError("SEND_FAILED")}

BrokerValues == {"halt", "proceed"}

NoAuthArgs == [made |-> FALSE, password |-> FALSE, sessionToken |-> FALSE,
               verificationMethod |-> None]

----------------------------------------------------------------------------
(* signIn as a promise chain *)

NoReplies ==
  [beforeSignIn |-> NotCalled, signInAccount |-> NotCalled,
   afterSignIn |-> NotCalled, sendUnblockEmail |-> NotCalled]

SignInInit ==
  /\ account \in Accounts
  /\ password \in BOOLEAN
  /\ capabilities \in Capabilities
  /\ view \in Views
  /\ signInPc = "start"
  /\ signInResult = NotCalled
  /\ successOrigin = None
  /\ successResult = NotCalled
  /\ consentPending = FALSE
  /\ authArgs = NoAuthArgs
  /\ brokerBehavior = None
  /\ replies = NoReplies
  /\ calls = <<>>

SignInIdle ==
  /\ account = CHOOSE a \in Accounts : a.isNull
  /\ password = FALSE
  /\ capabilities = {}
  /\ view = [group |-> "control", afterSignInBrokerMethod |-> None, redirectTo |-> None]
  /\ signInPc = "idle"
  /\ signInResult = NotCalled
  /\ successOrigin = None
  /\ successResult = NotCalled
  /\ consentPending = FALSE
  /\ authArgs = NoAuthArgs
  /\ brokerBehavior = None
  /\ replies = NoReplies
  /\ calls = <<>>

\* the collaborator the chain now waits for has been called
Awaiting(pc, settled) ==
  IF pc \in DOMAIN settled THEN [settled EXCEPT ![pc] = Unsettled] ELSE settled

\* one run of the chain: the calls it made, where it waits, the result of signIn
Settle(outcome, settled) ==
  /\ calls' = calls \o outcome.calls
  /\ signInPc' = outcome.pc
  /\ signInResult' = outcome.result
  /\ replies' = Awaiting(outcome.pc, settled)

\* signIn(account, password): the guard, then the beforeSignIn hook
SignIn ==
  /\ signInPc = "start"
  /\ IF signInRefused(account, password)
     THEN Settle(Outcome("done", Rejected(AuthErrors_toError("UNEXPECTED_ERROR")), <<>>), replies)
     ELSE Settle(Outcome("beforeSignIn", Unsettled,
                         <<Call("invokeBrokerMethod", "beforeSignIn", "account")>>), replies)
  /\ UNCHANGED <<account, password, capabilities, view, successOrigin, successResult,
                 consentPending, authArgs, brokerBehavior, attrs>>

\* beforeSignIn resolved: the first continuation, up to signInAccount
BeforeSignInResolves ==
  /\ signInPc = "beforeSignIn"
  /\ account' = IF discardsSessionToken(account, capabilities)
                THEN [account EXCEPT !.sessionToken = FALSE] ELSE account
  /\ authArgs' = [made |-> TRUE, password |-> password, sessionToken |-> account'.sessionToken,
                  verificationMethod |-> experimentVerificationMethod(view.group)]
  /\ Settle(Outcome("signInAccount", Unsettled,
                    <<Call("logFlowEvent", "attempt", "signin"),
                      Call("signInAccount", experimentVerificationMethod(view.group), None)>>),
            [replies EXCEPT !.beforeSignIn = Resolved("undefined")])
  /\ UNCHANGED <<password, capabilities, view, successOrigin, successResult,
                 consentPending, brokerBehavior, attrs>>

BeforeSignInRejects ==
  /\ signInPc = "beforeSignIn"
  /\ \E err \in BrokerErrors :
       Settle(catch(account, err), [replies EXCEPT !.beforeSignIn = Rejected(err)])
  /\ UNCHANGED <<account, password, capabilities, view, successOrigin, successResult,
                 consentPending, authArgs, brokerBehavior, attrs>>

\* signInAccount resolved with the signed in account: the second continuation
SignInAccountResolves ==
  /\ signInPc = "signInAccount"
  /\ \E v \in Verifications, uid \in {"uid1", "uid2"}, seen \in BOOLEAN :
       LET signedIn == [account EXCEPT !.sessionToken = TRUE, !.verified = v[1],
                          !.verificationReason = v[2], !.verificationMethod = v[3],
                          !.uid = uid, !.hasSeenPermissions = seen]
           cleared == <<Call("formPrefill.clear", None, None)>>
           settled == [replies EXCEPT !.signInAccount = Resolved("account")]
       IN /\ account' = signedIn
          /\ IF accountNeedsPermissions(attrs, signedIn)
             THEN /\ Settle(Outcome("done", Resolved("undefined"),
                                    cleared \o <<navigate("signin_permissions", "account")>>),
                            settled)
                  /\ consentPending' = TRUE
                  /\ UNCHANGED <<successOrigin, successResult, attrs, view, brokerBehavior>>
             ELSE LET success == onSignInSuccess(attrs, signedIn, capabilities, view)
                  IN /\ Settle(Outcome(success.pc, success.result, cleared \o success.calls),
                               settled)
                     /\ successOrigin' = "signIn"
                     /\ successResult' = success.result
                     /\ attrs' = success.attrs
                     /\ view' = success.view
                     /\ brokerBehavior' = success.behavior
                     /\ UNCHANGED consentPending
  /\ UNCHANGED <<password, capabilities, authArgs>>

SignInAccountRejects ==
  /\ signInPc = "signInAccount"
  /\ \E err \in SignInAccountErrors :
       Settle(catch(account, err), [replies EXCEPT !.signInAccount = Rejected(err)])
  /\ UNCHANGED <<account, password, capabilities, view, successOrigin, successResult,
                 consentPending, authArgs, brokerBehavior, attrs>>

\* the permissions screen calls onSubmitComplete, which is onSignInSuccess
OnSubmitComplete ==
  /\ consentPending
  /\ signInPc = "done"
  /\ LET success == onSignInSuccess(attrs, account, capabilities, view)
     IN /\ calls' = calls \o success.calls
        /\ signInPc' = success.pc
        /\ replies' = Awaiting(success.pc, replies)
        /\ successOrigin' = "onSubmitComplete"
        /\ successResult' = success.result
        /\ attrs' = success.attrs
        /\ view' = success.view
        /\ brokerBehavior' = success.behavior
  /\ consentPending' = FALSE
  /\ UNCHANGED <<account, password, capabilities, signInResult, authArgs>>

\* the post sign-in broker method resolved
AfterSignInResolves ==
  /\ signInPc = "afterSignIn"
  /\ \E value \in BrokerValues :
       /\ replies' = [replies EXCEPT !.afterSignIn = Resolved(value)]
       /\ successResult' = Resolved(value)
       /\ signInResult' = IF successOrigin = "signIn" THEN Resolved(value) ELSE signInResult
  /\ signInPc' = "done"
  /\ UNCHANGED <<account, password, capabilities, view, successOrigin, consentPending,
                 authArgs, brokerBehavior, calls, attrs>>

\* the post sign-in broker method rejected: inside signIn the .catch sees it
AfterSignInRejects ==
  /\ signInPc = "afterSignIn"
  /\ \E err \in BrokerErrors :
       /\ successResult' = Rejected(err)
       /\ IF successOrigin = "signIn"
          THEN Settle(catch(account, err), [replies EXCEPT !.afterSignIn = Rejected(err)])
          ELSE /\ signInPc' = "done"
               /\ replies' = [replies EXCEPT !.afterSignIn = Rejected(err)]
               /\ UNCHANGED <<signInResult, calls>>
  /\ UNCHANGED <<account, password, capabilities, view, successOrigin, consentPending,
                 authArgs, brokerBehavior, attrs>>

\* onSignInBlocked: the unblock email was sent
SendUnblockEmailResolves ==
  /\ signInPc = "sendUnblockEmail"
  /\ Settle(Outcome("done", Resolved("undefined"), <<navigate("signin_unblock", "account")>>),
            [replies EXCEPT !.sendUnblockEmail = Resolved("undefined")])
  /\ UNCHANGED <<account, password, capabilities, view, successOrigin, successResult,
                 consentPending, authArgs, brokerBehavior, attrs>>

\* onSignInBlocked has no failure continuation: the failure is the result
SendUnblockEmailRejects ==
  /\ signInPc = "sendUnblockEmail"
  /\ \E err \in SendUnblockEmailErrors :
       Settle(Outcome("done", Rejected(err), <<>>),
              [replies EXCEPT !.sendUnblockEmail = Rejected(err)])
  /\ UNCHANGED <<account, password, capabilities, view, successOrigin, successResult,
                 consentPending, authArgs, brokerBehavior, attrs>>

----------------------------------------------------------------------------
vars == <<scopes, scopeArr, scopePc,
          searchParams, session, attrs, attrs0, fetchPc, clientReply, fetchErr,
          account, password, capabilities, view, signInPc, signInResult,
          successOrigin, successResult, consentPending, authArgs, brokerBehavior,
          replies, calls>>

\* the variables of fetch() that signIn never touches
fetchRest == <<searchParams, session, attrs0, fetchPc, clientReply, fetchErr>>

Init == FetchInit /\ ScopeIdle /\ SignInIdle

Next ==
  \/ Fetch /\ UNCHANGED <<scopeVars, signInVars>>
  \/ GetClientInfoResolves /\ UNCHANGED <<scopeVars, signInVars>>
  \/ GetClientInfoRejects /\ UNCHANGED <<scopeVars, signInVars>>
  \/ Normalize /\ UNCHANGED <<scopeVars, signInVars>>

Spec == Init /\ [][Next]_vars

InitScope == ScopeInit /\ FetchIdle /\ SignInIdle

NextScope == ScopeStrToArray /\ UNCHANGED <<fetchVars, signInVars>>

SpecScope == InitScope /\ [][NextScope]_vars

\* signIn runs on a relier that fetch() has resolved
InitSignIn ==
  /\ SignInInit
  /\ ScopeIdle
  /\ attrs \in SignInReliers
  /\ attrs0 = attrs
  /\ searchParams = NoAttrs
  /\ session = NoAttrs
  /\ fetchPc = "resolved"
  /\ clientReply = Pending
  /\ fetchErr = NoError

NextSignIn ==
  \/ SignIn /\ UNCHANGED <<scopeVars, fetchRest>>
  \/ BeforeSignInResolves /\ UNCHANGED <<scopeVars, fetchRest>>
  \/ BeforeSignInRejects /\ UNCHANGED <<scopeVars, fetchRest>>
  \/ SignInAccountResolves /\ UNCHANGED <<scopeVars, fetchRest>>
  \/ SignInAccountRejects /\ UNCHANGED <<scopeVars, fetchRest>>
  \/ OnSubmitComplete /\ UNCHANGED <<scopeVars, fetchRest>>
  \/ AfterSignInResolves /\ UNCHANGED <<scopeVars, fetchRest>>
  \/ AfterSignInRejects /\ UNCHANGED <<scopeVars, fetchRest>>
  \/ SendUnblockEmailResolves /\ UNCHANGED <<scopeVars, fetchRest>>
  \/ SendUnblockEmailRejects /\ UNCHANGED <<scopeVars, fetchRest>>

SpecSignIn == InitSignIn /\ [][NextSignIn]_vars

----------------------------------------------------------------------------
(* Vocabulary of the properties *)

\* the tokens of a scope string: its maximal runs of non-space characters
RECURSIVE TokensFrom(_, _)
TokensFrom(str, from) ==
  LET starts == {i \in from..Len(str) : str[i] # " "}
  IN IF starts = {} THEN <<>>
     ELSE LET first == CHOOSE i \in starts : \A j \in starts : i <= j
              stops == {i \in first..Len(str) : i = Len(str) \/ str[i + 1] = " "}
              last == CHOOSE i \in stops : \A j \in stops : i <= j
          IN <<SubSeq(str, first, last)>> \o TokensFrom(str, last + 1)

TokensOf(str) == TokensFrom(str, 1)

\* the elements of seq at the positions where an element occurs first
FirstOccurrences(seq) ==
  LET keep[i \in 0..Len(seq)] ==
        IF i = 0 THEN <<>>
        ELSE IF \E j \in 1..(i - 1) : seq[j] = seq[i] THEN keep[i - 1]
        ELSE Append(keep[i - 1], seq[i])
  IN keep[Len(seq)]

Count(seq, x) == Cardinality({i \in 1..Len(seq) : seq[i] = x})

NoDuplicates(seq) == \A i, j \in 1..Len(seq) : seq[i] = seq[j] => i = j

FetchCalled == fetchPc \in {"getClientInfo", "normalize", "resolved", "rejected"}

VerificationPath == FetchCalled /\ Has(searchParams, "code")

SignInSignUpPath == FetchCalled /\ ~Has(searchParams, "code")

\* the object the flow reads its parameters from
RequestObject ==
  IF ~Has(searchParams, "code") THEN searchParams
  ELSE IF Has(session, "oauth") THEN session["oauth"]
  ELSE IF Has(searchParams, "service")
       THEN [k \in {"client_id", "service"} |-> searchParams["service"]]
       ELSE NoAttrs

\* getClientInfo resolved with a record that passes the client info schema
ClientInfoAccepted ==
  /\ clientReply.tag = "info"
  /\ \A i \in 1..Len(CLIENT_INFO_SCHEMA) : ~RuleFails(clientReply.info, CLIENT_INFO_SCHEMA[i])

\* fetch() got as far as scope normalization, with a scope to normalize
ScopeNormalized ==
  /\ ClientInfoAccepted
  /\ fetchPc \in {"resolved", "rejected"}
  /\ fetchErr.kind # "INCORRECT_REDIRECT"
  /\ Has(RequestObject, "scope")

RequestedTokens == FirstOccurrences(TokensOf(RequestObject["scope"]))

----------------------------------------------------------------------------
(* Properties of OAuthRelier.fetch *)

SchemaFailures ==
  {i \in 1..Len(SIGNIN_SIGNUP_QUERY_PARAM_SCHEMA) :
     RuleFails(searchParams, SIGNIN_SIGNUP_QUERY_PARAM_SCHEMA[i])}

\* C1 as stated: on the sign-in/sign-up path a `service` query parameter
\* makes fetch() reject with INVALID_PARAMETER on "service", whatever the
\* other query parameters are.
C1_ServiceAlwaysNamed ==
  (SignInSignUpPath /\ Has(searchParams, "service"))
    => (fetchPc = "rejected" /\ fetchErr = toInvalidParameterError("service"))

\* C1 amended: on the sign-in/sign-up path a `service` query parameter
\* always makes fetch() reject; the error is INVALID_PARAMETER on "service"
\* when the other query parameters pass the sign-in/sign-up schema, and
\* otherwise the schema's error for the first parameter that fails it.
C1_ServiceRejected ==
  (SignInSignUpPath /\ Has(searchParams, "service"))
    => /\ fetchPc = "rejected"
       /\ IF SchemaFailures = {}
          THEN fetchErr = toInvalidParameterError("service")
          ELSE LET first == CHOOSE i \in SchemaFailures : \A j \in SchemaFailures : i <= j
                   key == SIGNIN_SIGNUP_QUERY_PARAM_SCHEMA[first].key
               IN /\ fetchErr.field = key
                  /\ fetchErr.kind = IF Has(searchParams, key) THEN "INVALID_PARAMETER"
                                     ELSE "MISSING_PARAMETER"

C1_Witness ==
  /\ SignInSignUpPath
  /\ Has(searchParams, "service")
  /\ Has(searchParams, "prompt")
  /\ Has(searchParams, "redirect_uri")
  /\ fetchErr = toInvalidParameterError("service")

\* C2: on the sign-in/sign-up path a client whose registered redirectUri
\* differs from the redirect_uri of the request (or a request without one)
\* makes fetch() reject with INCORRECT_REDIRECT; on the verification path
\* the client info is applied whatever its redirectUri and fetch() never
\* rejects with INCORRECT_REDIRECT.
C2_RedirectChecked ==
  /\ (SignInSignUpPath /\ ClientInfoAccepted /\
        (~Has(searchParams, "redirect_uri")
           \/ searchParams["redirect_uri"] # clientReply.info["redirect_uri"]))
       => (fetchPc = "rejected" /\ fetchErr = toError("INCORRECT_REDIRECT"))
  /\ (SignInSignUpPath /\ ClientInfoAccepted /\ Has(searchParams, "redirect_uri") /\
        searchParams["redirect_uri"] = clientReply.info["redirect_uri"])
       => fetchErr.kind # "INCORRECT_REDIRECT"
  /\ (VerificationPath /\ ClientInfoAccepted)
       => /\ fetchErr.kind # "INCORRECT_REDIRECT"
          /\ attrs["redirectUri"] = clientReply.info["redirect_uri"]
          /\ fetchPc = "rejected" => fetchErr = toInvalidParameterError("scope")

C2_Witness ==
  /\ SignInSignUpPath
  /\ ClientInfoAccepted
  /\ Has(searchParams, "redirect_uri")
  /\ searchParams["redirect_uri"] # clientReply.info["redirect_uri"]
  /\ fetchErr = toError("INCORRECT_REDIRECT")

\* C3: a failure of getClientInfo is an UNKNOWN_CLIENT carrying the
\* requested clientId exactly when it is an INVALID_PARAMETER whose first
\* validation key is client_id; any other failure is the rejection value
\* of fetch() as it came.
C3_UnknownClient ==
  clientReply.tag = "error"
    => /\ fetchPc = "rejected"
       /\ IF /\ clientReply.err.kind = "INVALID_PARAMETER"
             /\ clientReply.err.validation
             /\ Len(clientReply.err.keys) > 0
             /\ Head(clientReply.err.keys) = "client_id"
          THEN /\ fetchErr.kind = "UNKNOWN_CLIENT"
               /\ fetchErr.client_id = RequestObject["client_id"]
          ELSE fetchErr = clientReply.err

C3_Witness ==
  /\ clientReply.tag = "error"
  /\ fetchErr.kind = "UNKNOWN_CLIENT"
  /\ fetchErr.client_id = "cid1"

AllowedRequestedTokens ==
  SelectSeq(RequestedTokens, LAMBDA t : t \in Range(OAUTH_UNTRUSTED_ALLOWED_PERMISSIONS))

\* C4: for an untrusted relier the permissions are the requested tokens
\* that the allow-list holds, in the order of the request; when there is
\* none, fetch() rejects with INVALID_PARAMETER on "scope".
C4_UntrustedPermissions ==
  (ScopeNormalized /\ ~clientReply.info["trusted"])
    => IF AllowedRequestedTokens = <<>>
       THEN fetchPc = "rejected" /\ fetchErr = toInvalidParameterError("scope")
       ELSE fetchPc = "resolved" /\ attrs["permissions"] = AllowedRequestedTokens

C4_Witness ==
  /\ ScopeNormalized
  /\ ~clientReply.info["trusted"]
  /\ fetchPc = "resolved"
  /\ attrs["permissions"] = << <<"u">>, <<"e">> >>
  /\ RequestedTokens = << <<"u">>, <<"e">> >>

\* C6: for a trusted relier with prompt=consent whose scope holds the
\* token `profile`, the permissions hold every sub-scope of the expansion
\* exactly once, and every other requested token.
C6_ProfileExpanded ==
  (ScopeNormalized /\ clientReply.info["trusted"] /\ Has(RequestObject, "prompt")
     /\ OAUTH_TRUSTED_PROFILE_SCOPE \in Range(RequestedTokens))
    => /\ fetchPc = "resolved"
       /\ \A i \in 1..Len(OAUTH_TRUSTED_PROFILE_SCOPE_EXPANSION) :
            Count(attrs["permissions"], OAUTH_TRUSTED_PROFILE_SCOPE_EXPANSION[i]) = 1
       /\ \A t \in Range(RequestedTokens) :
            t # OAUTH_TRUSTED_PROFILE_SCOPE => Count(attrs["permissions"], t) = 1

C6_Witness ==
  /\ ScopeNormalized
  /\ clientReply.info["trusted"]
  /\ Has(RequestObject, "prompt")
  /\ OAUTH_TRUSTED_PROFILE_SCOPE \in Range(RequestedTokens)
  /\ OAUTH_TRUSTED_PROFILE_SCOPE_EXPANSION[2] \in Range(RequestedTokens)
  /\ fetchPc = "resolved"

----------------------------------------------------------------------------
(* Properties of scopeStrToArray *)

NonEmptyEntries(arr) == SelectSeq(arr, LAMBDA t : t # <<>>)

\* C5: scopeStrToArray returns every distinct token of the string exactly
\* once, in the order in which the tokens occur first.
C5_FirstOccurrenceOrder ==
  scopePc = "returned"
    => /\ NonEmptyEntries(scopeArr) = FirstOccurrences(TokensOf(scopes))
       /\ NoDuplicates(scopeArr)

C5_Witness ==
  /\ scopePc = "returned"
  /\ ~NoDuplicates(TokensOf(scopes))
  /\ Len(scopeArr) = 2
  /\ scopeArr[1] # <<>> /\ scopeArr[2] # <<>>

----------------------------------------------------------------------------
(* Properties of signIn *)

Navigations(screens) ==
  {i \in 1..Len(calls) : calls[i].op = "navigate" /\ calls[i].arg \in screens}

\* C7: signIn without an account, with a default account, or with an
\* account that has neither a sessionToken nor a password rejects with
\* UNEXPECTED_ERROR; no collaborator was called and the account is as it
\* was.
C7_RefusedBeforeAnyCall ==
  /\ [][(signInPc = "start" /\
           (account.isNull \/ account.isDefault \/ (~account.sessionToken /\ ~password)))
          => /\ signInResult' = Rejected(AuthError("UNEXPECTED_ERROR", None, None))
             /\ signInPc' = "done"
             /\ calls' = <<>>
             /\ replies' = NoReplies
             /\ account' = account
             /\ attrs' = attrs]_vars
  /\ [](signInResult.err.kind = "UNEXPECTED_ERROR"
          => calls = <<>> /\ replies = NoReplies /\ signInPc = "done")

C7_Witness ==
  /\ signInResult = Rejected(AuthError("UNEXPECTED_ERROR", None, None))
  /\ ~account.isNull
  /\ ~account.isDefault
  /\ "reuseExistingSession" \in capabilities

ExpectedUnverifiedScreen ==
  CASE account.verificationReason = SIGN_IN /\ account.verificationMethod = EMAIL
         -> "confirm_signin"
    [] account.verificationReason = SIGN_IN /\ account.verificationMethod = EMAIL_2FA
         -> "signin_token_code"
    [] account.verificationReason = SIGN_IN /\ account.verificationMethod = TOTP_2FA
         -> "signin_totp_code"
    [] OTHER -> "confirm"

\* C8: onSignInSuccess of an unverified account makes one call, the
\* navigation to the screen of its (verificationReason, verificationMethod)
\* pair; the post sign-in broker method is not invoked, no success event
\* is logged and the relier is as it was.
C8_UnverifiedNavigation ==
  (successOrigin # None /\ ~account.verified)
    => /\ Len(calls) >= 2
       /\ calls[Len(calls)] = Call("navigate", ExpectedUnverifiedScreen, "account")
       /\ calls[Len(calls) - 1] \in {Call("formPrefill.clear", None, None),
                                     Call("navigate", "signin_permissions", "account")}
       /\ Cardinality(Navigations({"confirm_signin", "signin_token_code",
                                   "signin_totp_code", "confirm"})) = 1
       /\ \A i \in 1..Len(calls) :
            /\ calls[i].op \notin {"logEvent", "logViewEvent"}
            /\ calls[i].op = "invokeBrokerMethod" => calls[i].arg = "beforeSignIn"
       /\ replies.afterSignIn = NotCalled
       /\ attrs = attrs0
       /\ successResult = Resolved("undefined")
       /\ signInPc = "done"

C8_Witness ==
  /\ successOrigin = "signIn"
  /\ ~account.verified
  /\ account.verificationReason = SIGN_IN
  /\ account.verificationMethod = TOTP_2FA
  /\ calls[Len(calls)].arg = "signin_totp_code"

UidDiffers == ~Has(attrs0, "uid") \/ attrs0["uid"] # account.uid

\* C9: onSignInSuccess of a verified account sets the relier's uid to the
\* account's uid exactly when the two differ and the broker has the
\* allowUidChange capability, and leaves the relier alone otherwise; in
\* every case it invokes the post sign-in broker method, and what that
\* method settles with is what onSignInSuccess settles with.
C9_UidChange ==
  (successOrigin # None /\ account.verified)
    => /\ attrs = IF UidDiffers /\ "allowUidChange" \in capabilities
                  THEN Set1(attrs0, "uid", account.uid) ELSE attrs0
       /\ \E i \in 1..Len(calls) :
            calls[i] = Call("invokeBrokerMethod",
                            IF view.afterSignInBrokerMethod # None
                            THEN view.afterSignInBrokerMethod ELSE "afterSignIn",
                            "account")
       /\ replies.afterSignIn.state # "none"
       /\ successResult = replies.afterSignIn
       /\ (successOrigin = "signIn" /\ replies.afterSignIn.state = "resolved")
            => signInResult = replies.afterSignIn

C9_Witness ==
  /\ successOrigin = "signIn"
  /\ account.verified
  /\ Has(attrs0, "uid")
  /\ attrs["uid"] # attrs0["uid"]
  /\ signInResult.state = "resolved"
  /\ signInResult.value = "proceed"

\* C10: signin_unblock is navigated to only after sendUnblockEmail has
\* succeeded; when sendUnblockEmail fails, signIn rejects with that
\* failure and signin_unblock is not navigated to.
C10_UnblockAfterSend ==
  /\ Navigations({"signin_unblock"}) # {}
       => /\ replies.sendUnblockEmail.state = "resolved"
          /\ \A i \in Navigations({"signin_unblock"}) :
               \E j \in 1..(i - 1) : calls[j].op = "sendUnblockEmail"
  /\ replies.sendUnblockEmail.state = "rejected"
       => /\ signInResult = Rejected(replies.sendUnblockEmail.err)
          /\ Navigations({"signin_unblock"}) = {}
          /\ signInPc = "done"

C10_Witness ==
  /\ replies.signInAccount.state = "rejected"
  /\ replies.signInAccount.err.kind = "REQUEST_BLOCKED"
  /\ replies.sendUnblockEmail.state = "rejected"
  /\ signInResult.err.kind = "SEND_FAILED"

----------------------------------------------------------------------------
(* Properties of OAuthRelier.fetch, continued *)

ValidationKinds ==
  {"INVALID_PARAMETER", "MISSING_PARAMETER", "UNKNOWN_CLIENT", "INCORRECT_REDIRECT"}

\* C11: a validation failure is never partially applied: when fetch()
\* rejects with INVALID_PARAMETER, MISSING_PARAMETER, UNKNOWN_CLIENT or
\* INCORRECT_REDIRECT, every attribute of the relier has the value it had
\* when fetch() was called.
C11_NeverPartiallyApplied ==
  (fetchPc = "rejected" /\ fetchErr.kind \in ValidationKinds) => attrs = attrs0

JoinedBySpace(arr) ==
  LET upTo[i \in 0..Len(arr)] ==
        IF i = 0 THEN <<>>
        ELSE IF i = 1 THEN arr[1]
        ELSE upTo[i - 1] \o <<" ">> \o arr[i]
  IN upTo[Len(arr)]

\* C12: once fetch() has resolved and a scope was supplied, `scope` is the
\* elements of `permissions` joined by single spaces and `permissions`
\* holds no token twice.
C12_ScopeMatchesPermissions ==
  (fetchPc = "resolved" /\ Has(RequestObject, "scope"))
    => /\ Has(attrs, "scope") /\ Has(attrs, "permissions")
       /\ attrs["scope"] = JoinedBySpace(attrs["permissions"])
       /\ NoDuplicates(attrs["permissions"])

C12_Witness ==
  /\ fetchPc = "resolved"
  /\ Has(RequestObject, "scope")
  /\ ~clientReply.info["trusted"]
  /\ Len(attrs["permissions"]) = 2
  /\ attrs["scope"] # RequestObject["scope"]

ConsentExpansion ==
  /\ ScopeNormalized
  /\ clientReply.info["trusted"]
  /\ Has(RequestObject, "prompt")
  /\ OAUTH_TRUSTED_PROFILE_SCOPE \in Range(RequestedTokens)

OtherRequestedTokens ==
  SelectSeq(RequestedTokens, LAMBDA t : t # OAUTH_TRUSTED_PROFILE_SCOPE)

\* the sub-scopes of the expansion that the request does not name itself
AddedByExpansion ==
  SelectSeq(OAUTH_TRUSTED_PROFILE_SCOPE_EXPANSION,
            LAMBDA t : t \notin Range(OtherRequestedTokens))

ProfilePosition ==
  CHOOSE i \in 1..Len(RequestedTokens) : RequestedTokens[i] = OAUTH_TRUSTED_PROFILE_SCOPE

\* C17 as stated: the expansion replaces `profile` in place: the added
\* sub-scopes stand where `profile` first stood, between the tokens
\* requested before it and the tokens requested after it.
C17_ExpandedInPlace ==
  ConsentExpansion
    => NonEmptyEntries(attrs["permissions"]) =
         SubSeq(RequestedTokens, 1, ProfilePosition - 1)
           \o AddedByExpansion
           \o SubSeq(RequestedTokens, ProfilePosition + 1, Len(RequestedTokens))

\* C17 amended: the requested tokens other than `profile` keep their
\* relative order and come first; the sub-scopes of the expansion that
\* were not requested follow them, in the order of the expansion.
C17_ExpansionAppended ==
  ConsentExpansion
    => NonEmptyEntries(attrs["permissions"]) = OtherRequestedTokens \o AddedByExpansion

C17_Witness ==
  /\ ConsentExpansion
  /\ fetchPc = "resolved"
  /\ Len(RequestedTokens) = 2
  /\ RequestedTokens[1] = OAUTH_TRUSTED_PROFILE_SCOPE
  /\ Len(AddedByExpansion) = 2

----------------------------------------------------------------------------
(* Properties of scopeStrToArray, continued *)

\* C18: scopeStrToArray returns non-empty tokens only, also for a string
\* that starts or ends with whitespace, and the empty list for an empty
\* or whitespace-only string.
C18_OnlyNonEmptyTokens ==
  scopePc = "returned"
    => /\ \A i \in 1..Len(scopeArr) : scopeArr[i] # <<>>
       /\ (\A i \in 1..Len(scopes) : scopes[i] = " ") => scopeArr = <<>>

----------------------------------------------------------------------------
(* signIn with collaborators that settle *)

SignInCalled == SignIn /\ UNCHANGED <<scopeVars, fetchRest>>

BeforeSignInSettles ==
  (BeforeSignInResolves \/ BeforeSignInRejects) /\ UNCHANGED <<scopeVars, fetchRest>>

SignInAccountSettles ==
  (SignInAccountResolves \/ SignInAccountRejects) /\ UNCHANGED <<scopeVars, fetchRest>>

AfterSignInSettles ==
  (AfterSignInResolves \/ AfterSignInRejects) /\ UNCHANGED <<scopeVars, fetchRest>>

SendUnblockEmailSettles ==
  (SendUnblockEmailResolves \/ SendUnblockEmailRejects) /\ UNCHANGED <<scopeVars, fetchRest>>

\* every promise a collaborator returned settles; the permissions screen is
\* free never to call onSubmitComplete
SpecSignInFair ==
  /\ InitSignIn
  /\ [][NextSignIn]_vars
  /\ WF_vars(SignInCalled)
  /\ WF_vars(BeforeSignInSettles)
  /\ WF_vars(SignInAccountSettles)
  /\ WF_vars(AfterSignInSettles)
  /\ WF_vars(SendUnblockEmailSettles)

----------------------------------------------------------------------------
(* Properties of signIn, continued *)

SendUnblockEmailCalls == {i \in 1..Len(calls) : calls[i].op = "sendUnblockEmail"}

AllNavigations == {i \in 1..Len(calls) : calls[i].op = "navigate"}

PostSignInHookCalls ==
  {i \in 1..Len(calls) : calls[i].op = "invokeBrokerMethod" /\ calls[i].arg # "beforeSignIn"}

\* C13: when every collaborator call settles, signIn settles; it resolves
\* only after a navigation or after the post sign-in broker method was
\* invoked, and otherwise rejects with an error.
C13_SignInSettles ==
  /\ (signInPc = "start") ~> (signInResult.state \in {"resolved", "rejected"})
  /\ [](signInResult.state = "resolved"
          => (AllNavigations # {} \/ PostSignInHookCalls # {}))
  /\ [](signInResult.state = "rejected" => signInResult.err.kind # None)

C13_Witness ==
  /\ signInPc = "done"
  /\ signInResult.state = "resolved"
  /\ replies.sendUnblockEmail.state = "resolved"
  /\ replies.afterSignIn.state = "rejected"

SignInAttemptBlocked ==
  /\ replies.signInAccount.state = "rejected"
  /\ replies.signInAccount.err.kind \in {"THROTTLED", "REQUEST_BLOCKED"}

\* C14 as stated: a sign-in attempt that fails with THROTTLED or
\* REQUEST_BLOCKED sends an unblock email, whatever verificationReason and
\* verificationMethod the error carries, and routes to signin_unblock once
\* the email is sent.
C14_BlockedAlwaysRemediated ==
  SignInAttemptBlocked
    => /\ SendUnblockEmailCalls # {}
       /\ replies.sendUnblockEmail.state = "resolved" => Navigations({"signin_unblock"}) # {}

\* C14 amended: the unblock email is sent, and signin_unblock navigated to
\* once it is sent, when the error carries verificationReason SIGN_IN and
\* verificationMethod EMAIL_CAPTCHA; with any other reason or method
\* signIn rejects with the error, sends nothing and navigates nowhere.
C14_BlockedRemediatedForCaptcha ==
  SignInAttemptBlocked
    => IF /\ replies.signInAccount.err.verificationReason = SIGN_IN
          /\ replies.signInAccount.err.verificationMethod = EMAIL_CAPTCHA
       THEN /\ Cardinality(SendUnblockEmailCalls) = 1
            /\ replies.sendUnblockEmail.state = "resolved"
                 => /\ calls[Len(calls)] = Call("navigate", "signin_unblock", "account")
                    /\ signInResult.state = "resolved"
       ELSE /\ SendUnblockEmailCalls = {}
            /\ AllNavigations = {}
            /\ signInResult = Rejected(replies.signInAccount.err)

C14_Witness ==
  /\ SignInAttemptBlocked
  /\ replies.signInAccount.err.kind = "THROTTLED"
  /\ replies.sendUnblockEmail.state = "resolved"
  /\ Navigations({"signin_unblock"}) # {}

\* C15: signInAccount is called with a password or with an account that
\* still holds a session token; the token is discarded before the call
\* exactly when the account holds one and the broker lacks the
\* reuseExistingSession capability.
C15_PasswordOrToken ==
  /\ [](authArgs.made => (authArgs.password \/ authArgs.sessionToken))
  /\ [][(signInPc = "beforeSignIn" /\ signInPc' = "signInAccount")
          => ((account.sessionToken /\ ~account'.sessionToken)
                <=> (account.sessionToken /\ "reuseExistingSession" \notin capabilities))]_vars

OtherSignInErrors ==
  {"THROTTLED", "REQUEST_BLOCKED", "EMAIL_HARD_BOUNCE", "EMAIL_SENT_COMPLAINT"}

\* C16: a sign-in attempt that fails with EMAIL_HARD_BOUNCE or
\* EMAIL_SENT_COMPLAINT navigates to signin_bounced with the account's
\* email and sends no unblock email; one that fails with an error other
\* than these and THROTTLED, REQUEST_BLOCKED makes signIn reject with that
\* error without any navigation.
C16_BouncedOrRethrown ==
  replies.signInAccount.state = "rejected"
    => /\ replies.signInAccount.err.kind \in {"EMAIL_HARD_BOUNCE", "EMAIL_SENT_COMPLAINT"}
            => /\ calls[Len(calls)] = Call("navigate", "signin_bounced", account.email)
               /\ Cardinality(AllNavigations) = 1
               /\ SendUnblockEmailCalls = {}
               /\ signInResult.state = "resolved"
       /\ replies.signInAccount.err.kind \notin OtherSignInErrors
            => /\ signInResult = Rejected(replies.signInAccount.err)
               /\ AllNavigations = {}
               /\ SendUnblockEmailCalls = {}

C16_Witness ==
  /\ replies.signInAccount.state = "rejected"
  /\ replies.signInAccount.err.kind = "EMAIL_SENT_COMPLAINT"
  /\ Navigations({"signin_bounced"}) # {}

RelierSkipsConsent ==
  /\ Has(attrs0, "trusted") /\ attrs0["trusted"]
  /\ ~(Has(attrs0, "prompt") /\ attrs0["prompt"] = "consent")

\* C19: after a successful authentication signIn navigates to
\* signin_permissions exactly when the relier reports that the account
\* needs permissions; onSignInSuccess and the post sign-in broker method
\* then wait for onSubmitComplete; a trusted relier without prompt=consent
\* is never routed to signin_permissions.
C19_ConsentBeforeOutcome ==
  /\ replies.signInAccount.state = "resolved"
       => (Navigations({"signin_permissions"}) # {}
             <=> (~RelierSkipsConsent /\ ~account.hasSeenPermissions))
  /\ consentPending
       => /\ calls[Len(calls)] = Call("navigate", "signin_permissions", "account")
          /\ successOrigin = None
          /\ successResult = NotCalled
          /\ PostSignInHookCalls = {}
          /\ signInResult = Resolved("undefined")
  /\ Navigations({"signin_permissions"}) # {} => successOrigin \in {None, "onSubmitComplete"}
  /\ RelierSkipsConsent => Navigations({"signin_permissions"}) = {}

C19_Witness ==
  /\ Navigations({"signin_permissions"}) # {}
  /\ successOrigin = "onSubmitComplete"
  /\ account.verified
  /\ replies.afterSignIn.state = "resolved"
  /\ attrs0["trusted"]

\* C20 as stated: sendUnblockEmail is invoked only after signInAccount
\* itself failed with THROTTLED or REQUEST_BLOCKED.
C20_OnlyAfterSignInAccountFails ==
  SendUnblockEmailCalls # {} => SignInAttemptBlocked

\* C20 amended: sendUnblockEmail is invoked only after a step of the chain
\* of signIn (the beforeSignIn hook, signInAccount, or the post sign-in
\* broker method that onSignInSuccess invoked inside signIn) failed with
\* THROTTLED or REQUEST_BLOCKED carrying SIGN_IN and EMAIL_CAPTCHA; a
\* failure of the broker method after onSubmitComplete never sends it.
C20_OnlyAfterBlockedStep ==
  /\ SendUnblockEmailCalls # {}
       => \E step \in {"beforeSignIn", "signInAccount", "afterSignIn"} :
            /\ replies[step].state = "rejected"
            /\ replies[step].err.kind \in {"THROTTLED", "REQUEST_BLOCKED"}
            /\ replies[step].err.verificationReason = SIGN_IN
            /\ replies[step].err.verificationMethod = EMAIL_CAPTCHA
            /\ step = "afterSignIn" => successOrigin = "signIn"
  /\ successOrigin = "onSubmitComplete" => SendUnblockEmailCalls = {}

C20_Witness ==
  /\ SendUnblockEmailCalls # {}
  /\ replies.signInAccount.state = "resolved"
  /\ replies.afterSignIn.state = "rejected"
  /\ replies.sendUnblockEmail.state = "resolved"

====
